---- MODULE Spec2Model ----
(***************************************************************************)
(* SourceTableUpdaterV2 (dbt_helper/tools/v2/source_updater.py).           *)
(*                                                                         *)
(* A dbt source YAML document is loaded, validated, updated with the       *)
(* description, labels and schema of a BigQuery table, and handed back.    *)
(* A YAML mapping is a record whose DOMAIN is the set of keys present, a   *)
(* YAML sequence is a sequence.  Python list indices are 0-based in the    *)
(* source and are kept 0-based here; list_get converts.                    *)
(***************************************************************************)
EXTENDS Integers, Sequences, FiniteSets

VARIABLES
    data,             \* SourceTableUpdaterV2.data, the loaded document
    pc,               \* "start", "loaded" (an updater exists), "called", "raised"
    raised,           \* message of the exception that left the last call, or "none"
    op,               \* name of the last method called on the updater
    old,              \* the document as it was when the last method was entered
    arg_schema,       \* schema argument of the last call, as extract_schema_info returns it
    arg_description,  \* description argument of the last call
    arg_labels        \* labels argument of the last call

vars == <<data, pc, raised, op, old, arg_schema, arg_description, arg_labels>>

----------------------------------------------------------------------------
(* Bounds of the model. *)

MaxCols == 3      \* longest column list of a loaded document
MaxFields == 3    \* longest BigQuery schema
MaxSources == 2   \* most entries under `sources`
MaxTables == 2    \* most entries under `tables`

\* column names a document may hold, and names a BigQuery schema may hold
Names == {"a", "b", "c"}
FieldNames == Names \cup {"d"}

----------------------------------------------------------------------------
(* Python values handed in by the caller.  t is the Python type. *)

PyNone == [t |-> "NoneType", v |-> ""]
PyStr(s) == [t |-> "str", v |-> s]
PyInt(s) == [t |-> "int", v |-> s]

\* isinstance(x, str)
isinstance_str(x) == x.t = "str"

\* A labels value: v is the set of <<key, value>> items (empty for non-dicts).
LabNone == [t |-> "NoneType", v |-> {}]
LabDict(items) == [t |-> "dict", v |-> items]
LabList == [t |-> "list", v |-> {}]

\* isinstance(labels, dict) and len(labels) > 0
nonempty_dict(x) == x.t = "dict" /\ Cardinality(x.v) > 0

DescriptionArgs == {PyNone, PyInt("7"), PyStr("new table text")}
LabelsArgs == {LabNone, LabDict({}), LabDict({<<"team", "data">>}), LabList}

----------------------------------------------------------------------------
(* Sequences and mappings. *)

\* All sequences over S of length at most n.
SeqUpTo(S, n) == UNION {[1..k -> S] : k \in 0..n}

DistinctNames(s) == \A i, j \in 1..Len(s) : s[i].name = s[j].name => i = j

\* mapping[key] = value on a mapping, adding the key when it is missing
setitem(m, key, value) ==
    [k \in DOMAIN m \cup {key} |-> IF k = key THEN value ELSE m[k]]

\* A column entry of the document, description present or not.
Column(n, d) == IF d = "" THEN [name |-> n] ELSE [name |-> n, description |-> d]

ColumnLists ==
    {s \in SeqUpTo({Column(n, d) : n \in Names, d \in {"", "old"}}, MaxCols) :
        DistinctNames(s)}

\* SchemaInfo(name, description) as extract_schema_info yields it.
Schemas ==
    {s \in SeqUpTo([name : FieldNames, description : {PyNone, PyStr("new")}], MaxFields) :
        DistinctNames(s)}

----------------------------------------------------------------------------
(* Documents handed to loads. *)

BaseTable(cols) == [name |-> "t", columns |-> cols]

\* The table with or without a description and with or without a meta key.
TableVariants(cols) ==
    {BaseTable(cols),
     setitem(BaseTable(cols), "description", "old table text"),
     setitem(BaseTable(cols), "meta", {<<"owner", "me">>}),
     setitem(setitem(BaseTable(cols), "description", "old table text"),
             "meta", {<<"owner", "me">>})}

Tables == UNION {TableVariants(cols) : cols \in ColumnLists}

DefaultTable == BaseTable(<<>>)

\* n tables, the first one t
TableSeq(t, n) == [i \in 1..n |-> IF i = 1 THEN t ELSE DefaultTable]

SmallSources ==
    {[name |-> "ds"]} \cup
    {[name |-> "ds", tables |-> TableSeq(DefaultTable, n)] : n \in 0..MaxTables}

DefaultSource == [name |-> "other", tables |-> <<DefaultTable>>]

\* n sources, the first one s
SourceSeq(s, n) == [i \in 1..n |-> IF i = 1 THEN s ELSE DefaultSource]

Docs ==
    {[version |-> "2"]}
    \cup {[version |-> "2", sources |-> SourceSeq(s, n)] :
            s \in SmallSources, n \in 0..MaxSources}
    \cup {[version |-> "2", sources |-> <<[name |-> "ds", tables |-> <<t>>]>>] :
            t \in Tables}

----------------------------------------------------------------------------
(* validate_sources: the message of the exception raised, or "ok". *)

validate_sources_no_order(d) ==
    IF "sources" \notin DOMAIN d THEN "not a dbt source YAML"
    ELSE IF Len(d.sources) = 0 THEN "IndexError"
    ELSE IF "tables" \notin DOMAIN d.sources[1] THEN "no tables"
    ELSE IF Len(d.sources) > 1 THEN "contains multiple datasets"
    ELSE IF Len(d.sources[1].tables) > 1 THEN "contains multiple tables"
    ELSE "ok"

validate_sources(d) ==
    IF "sources" \notin DOMAIN d THEN "not a dbt source YAML"
    ELSE IF Len(d.sources) > 1 THEN "contains multiple datasets"
    ELSE IF Len(d.sources) = 0 THEN "IndexError"  \* data["sources"][0] on an empty list
    ELSE IF "tables" \notin DOMAIN d.sources[1] THEN "no tables"
    ELSE IF Len(d.sources[1].tables) > 1 THEN "contains multiple tables"
    ELSE "ok"

----------------------------------------------------------------------------
(* Python list operations used by update_columns. *)

\* element at 0-based index
list_get(s, index) == s[index + 1]

list_insert_swapped(s, idx, value) ==
    LET i == IF idx > Len(s) THEN Len(s) ELSE idx
    IN  SubSeq(s, i + 1, Len(s)) \o <<value>> \o SubSeq(s, 1, i)

\* list.insert(idx, value) for idx >= 0: an index past the end appends
list_insert(s, idx, value) ==
    LET i == IF idx > Len(s) THEN Len(s) ELSE idx
    IN  SubSeq(s, 1, i) \o <<value>> \o SubSeq(s, i + 1, Len(s))

\* list.remove(value): deletes the first element equal to value
list_remove(s, value) ==
    LET first == CHOOSE i \in 1..Len(s) :
                     s[i] = value /\ \A j \in 1..(i - 1) : s[j] # value
    IN  SubSeq(s, 1, first - 1) \o SubSeq(s, first + 1, Len(s))

\* [c.name for c in new_schema_info_list]
schema_names(schema) == {schema[k].name : k \in 1..Len(schema)}

----------------------------------------------------------------------------
(* update_columns.  A loop state st is [columns, has_column, cursor_index]. *)

update_description_always(existing_column, schema_info) ==
    setitem(existing_column, "description", schema_info.description.v)

\* if isinstance(schema_info.description, str): existing_column["description"] = ...
update_description(existing_column, schema_info) ==
    IF isinstance_str(schema_info.description)
    THEN setitem(existing_column, "description", schema_info.description.v)
    ELSE existing_column

\* for index, existing_column in enumerate(self.columns), from `index` on
RECURSIVE scan_existing(_, _, _)
scan_existing(st, schema_info, index) ==
    IF index >= Len(st.columns) THEN st
    ELSE IF list_get(st.columns, index).name = schema_info.name
    THEN scan_existing(
             [columns |-> [st.columns EXCEPT
                              ![index + 1] = update_description(@, schema_info)],
              has_column |-> TRUE,
              cursor_index |-> index],
             schema_info, index + 1)
    ELSE scan_existing(st, schema_info, index + 1)

\* new_column = CommentedMap(); name, and description when it is a string
new_column(schema_info) ==
    IF isinstance_str(schema_info.description)
    THEN [name |-> schema_info.name, description |-> schema_info.description.v]
    ELSE [name |-> schema_info.name]

add_new_column_always(st, schema_info) ==
    [st EXCEPT !.columns =
        list_insert(@, st.cursor_index + 1, new_column(schema_info))]

\* if has_column is False: self.columns.insert(cursor_index + 1, new_column)
add_new_column(st, schema_info) ==
    IF st.has_column = FALSE
    THEN [st EXCEPT !.columns =
             list_insert(@, st.cursor_index + 1, new_column(schema_info))]
    ELSE st

\* for schema_info in new_schema_info_list, from the k-th field on
RECURSIVE merge_loop(_, _, _, _)
merge_loop(columns, cursor_index, schema, k) ==
    IF k > Len(schema) THEN columns
    ELSE LET scanned == scan_existing([columns |-> columns,
                                       has_column |-> FALSE,
                                       cursor_index |-> cursor_index],
                                      schema[k], 0)
             added == add_new_column(scanned, schema[k])
         IN  merge_loop(added.columns, added.cursor_index, schema, k + 1)

\* for existing_column in self.columns: ... self.columns.remove(existing_column)
\* The iterator holds a 0-based position into the list that is being mutated.
RECURSIVE remove_loop(_, _, _)
remove_loop(columns, index, names) ==
    IF index >= Len(columns) THEN columns
    ELSE IF list_get(columns, index).name \notin names
    THEN remove_loop(list_remove(columns, list_get(columns, index)), index + 1, names)
    ELSE remove_loop(columns, index + 1, names)

update_columns(columns, schema) ==
    remove_loop(merge_loop(columns, 0, schema, 1), 0, schema_names(schema))

----------------------------------------------------------------------------
(* Methods of the updater: the document and the exception they end with. *)

HasTable(d) == Len(d.sources[1].tables) > 0

\* self.data["sources"][0]["tables"][0]
TableOf(d) == d.sources[1].tables[1]

\* self.columns
columns(d) == TableOf(d).columns

Result(d, e) == [data |-> d, raised |-> e]

table_description_always(d, description) ==
    IF ~HasTable(d) THEN Result(d, "IndexError")
    ELSE Result([d EXCEPT !.sources[1].tables[1] =
                    setitem(@, "description", description.v)], "none")

\* table_description.setter
table_description(d, description) ==
    IF isinstance_str(description)
    THEN IF ~HasTable(d) THEN Result(d, "IndexError")
         ELSE Result([d EXCEPT !.sources[1].tables[1] =
                         setitem(@, "description", description.v)], "none")
    ELSE Result(d, "none")

table_labels_any_dict(d, labels) ==
    IF labels.t = "dict"
    THEN IF ~HasTable(d) THEN Result(d, "IndexError")
         ELSE Result([d EXCEPT !.sources[1].tables[1] =
                         setitem(@, "meta", labels.v)], "none")
    ELSE Result(d, "none")

\* table_labels.setter
table_labels(d, labels) ==
    IF nonempty_dict(labels)
    THEN IF ~HasTable(d) THEN Result(d, "IndexError")
         ELSE Result([d EXCEPT !.sources[1].tables[1] =
                         setitem(@, "meta", labels.v)], "none")
    ELSE Result(d, "none")

\* update_columns as a method: self.columns is mutated in place
update_columns_method(d, schema) ==
    IF ~HasTable(d) THEN Result(d, "IndexError")
    ELSE Result([d EXCEPT !.sources[1].tables[1].columns =
                    update_columns(@, schema)], "none")

\* update_with_bq_table: description, then labels, then columns
update_with_bq_table(d, description, labels, schema) ==
    LET r1 == table_description(d, description)
        r2 == table_labels(r1.data, labels)
    IN  IF r1.raised # "none" THEN r1
        ELSE IF r2.raised # "none" THEN r2
        ELSE update_columns_method(r2.data, schema)

----------------------------------------------------------------------------
(* The state machine. *)

NoSchema == <<>>

Init ==
    /\ data \in Docs
    /\ pc = "start"
    /\ raised = "none"
    /\ op = "none"
    /\ old = data
    /\ arg_schema = NoSchema
    /\ arg_description = PyNone
    /\ arg_labels = LabNone

\* SourceTableUpdaterV2.loads(data)
Loads ==
    /\ pc = "start"
    /\ op' = "loads"
    /\ raised' = IF validate_sources(data) = "ok" THEN "none" ELSE validate_sources(data)
    /\ pc' = IF validate_sources(data) = "ok" THEN "loaded" ELSE "raised"
    /\ UNCHANGED <<data, old, arg_schema, arg_description, arg_labels>>

\* the end of a method call on the updater with result r
Return(r) ==
    /\ data' = r.data
    /\ raised' = r.raised
    /\ pc' = IF r.raised = "none" THEN "called" ELSE "raised"
    /\ old' = data

\* updater.table_description = description
SetTableDescription ==
    /\ pc = "loaded"
    /\ \E description \in DescriptionArgs :
          /\ arg_description' = description
          /\ Return(table_description(data, description))
    /\ op' = "table_description"
    /\ UNCHANGED <<arg_schema, arg_labels>>

\* updater.table_labels = labels
SetTableLabels ==
    /\ pc = "loaded"
    /\ \E labels \in LabelsArgs :
          /\ arg_labels' = labels
          /\ Return(table_labels(data, labels))
    /\ op' = "table_labels"
    /\ UNCHANGED <<arg_schema, arg_description>>

\* updater.update_columns(schema)
UpdateColumns ==
    /\ pc = "loaded"
    /\ \E schema \in Schemas :
          /\ arg_schema' = schema
          /\ Return(update_columns_method(data, schema))
    /\ op' = "update_columns"
    /\ UNCHANGED <<arg_description, arg_labels>>

\* updater.update_with_bq_table(table)
UpdateWithBqTable ==
    /\ pc = "loaded"
    /\ \E description \in DescriptionArgs, labels \in LabelsArgs, schema \in Schemas :
          /\ arg_description' = description
          /\ arg_labels' = labels
          /\ arg_schema' = schema
          /\ Return(update_with_bq_table(data, description, labels, schema))
    /\ op' = "update_with_bq_table"

Next ==
    \/ Loads
    \/ SetTableDescription
    \/ SetTableLabels
    \/ UpdateColumns
    \/ UpdateWithBqTable

Spec == Init /\ [][Next]_vars

----------------------------------------------------------------------------
(* Properties.  They are read in the state a call has just left: `old` is  *)
(* the document on entry, `data` the document on exit.                     *)

\* update_columns ran to its end on a document that has a table
ColumnsCall ==
    /\ pc = "called"
    /\ op \in {"update_columns", "update_with_bq_table"}
    /\ HasTable(old)

before == columns(old)
after == columns(data)

column_names(cols) == {cols[i].name : i \in 1..Len(cols)}

\* the description of a mapping as a sequence: empty when the key is missing
DescriptionOf(m) == IF "description" \in DOMAIN m THEN <<m.description>> ELSE <<>>
MetaOf(m) == IF "meta" \in DOMAIN m THEN <<m.meta>> ELSE <<>>

\* C1: after update_columns no column is left whose name is absent from
\* newFields, wherever the stale columns sit.
C1_NoStaleColumnLeft ==
    ColumnsCall => column_names(after) \subseteq schema_names(arg_schema)

\* C2: applying update_columns a second time with the same newFields leaves
\* the column list exactly as the first application left it.
C2_Idempotent ==
    ColumnsCall => update_columns(after, arg_schema) = after

\* C3: the columns inserted for a contiguous run of newFields entries that
\* are all absent from the existing columns stand in newFields order.
C3_NewRunInFieldOrder ==
    ColumnsCall =>
        \A i, j \in 1..Len(arg_schema) :
            (/\ i < j
             /\ \A k \in i..j : arg_schema[k].name \notin column_names(before))
            => \A p, q \in 1..Len(after) :
                   (/\ after[p].name = arg_schema[i].name
                    /\ after[q].name = arg_schema[j].name) => p < q

\* C4: after update_columns every name of newFields occurs in the column
\* list exactly once.
C4_EachFieldExactlyOnce ==
    ColumnsCall =>
        \A k \in 1..Len(arg_schema) :
            Cardinality({p \in 1..Len(after) :
                            after[p].name = arg_schema[k].name}) = 1

\* C4 witness: one call that matched a column, inserted one and removed one.
C4_Witness ==
    /\ ColumnsCall
    /\ \E n \in schema_names(arg_schema) : n \in column_names(before)
    /\ \E n \in schema_names(arg_schema) :
          n \notin column_names(before) /\ n \in column_names(after)
    /\ \E n \in column_names(before) :
          n \notin schema_names(arg_schema) /\ n \notin column_names(after)

\* C5: a column matched by name to a field f ends with f.description when
\* that is a string, and otherwise is exactly the entry it was before the
\* call (description kept, or still absent).
C5_MatchedDescription ==
    ColumnsCall =>
        \A i \in 1..Len(before), k \in 1..Len(arg_schema) :
            before[i].name = arg_schema[k].name =>
                /\ \E p \in 1..Len(after) : after[p].name = before[i].name
                /\ \A p \in 1..Len(after) :
                      after[p].name = before[i].name =>
                          IF isinstance_str(arg_schema[k].description)
                          THEN DescriptionOf(after[p]) =
                                   <<arg_schema[k].description.v>>
                          ELSE after[p] = before[i]

\* C5 witness: one call with a described column matched by a null
\* description, a column without description matched by a null description,
\* and a described column matched by a string.
C5_Witness ==
    /\ ColumnsCall
    /\ \E i \in 1..Len(before), k \in 1..Len(arg_schema) :
          /\ before[i].name = arg_schema[k].name
          /\ DescriptionOf(before[i]) = <<"old">>
          /\ arg_schema[k].description = PyNone
          /\ before[i] \in {after[p] : p \in 1..Len(after)}
    /\ \E i \in 1..Len(before), k \in 1..Len(arg_schema) :
          /\ before[i].name = arg_schema[k].name
          /\ DescriptionOf(before[i]) = <<>>
          /\ arg_schema[k].description = PyNone
    /\ \E i \in 1..Len(before), k \in 1..Len(arg_schema) :
          /\ before[i].name = arg_schema[k].name
          /\ DescriptionOf(before[i]) = <<"old">>
          /\ arg_schema[k].description = PyStr("new")

ShapeErrors ==
    {"not a dbt source YAML", "contains multiple datasets",
     "no tables", "contains multiple tables"}

\* loads has returned or raised
LoadsDone == op = "loads"

\* C6: a document with an empty `sources` list, or whose single source has
\* an empty `tables` list, is rejected by loads with a validation error.
C6_ZeroEntriesRejected ==
    (/\ LoadsDone
     /\ "sources" \in DOMAIN data
     /\ \/ Len(data.sources) = 0
        \/ /\ Len(data.sources) = 1
           /\ "tables" \in DOMAIN data.sources[1]
           /\ Len(data.sources[1].tables) = 0)
    => pc = "raised" /\ raised \in ShapeErrors

NoSourcesKey(d) == "sources" \notin DOMAIN d
MultipleDatasets(d) == ~NoSourcesKey(d) /\ Len(d.sources) >= 2
NoTablesKey(d) ==
    /\ ~NoSourcesKey(d)
    /\ Len(d.sources) = 1
    /\ "tables" \notin DOMAIN d.sources[1]
MultipleTables(d) ==
    /\ ~NoSourcesKey(d)
    /\ Len(d.sources) = 1
    /\ "tables" \in DOMAIN d.sources[1]
    /\ Len(d.sources[1].tables) >= 2

\* C7: loads rejects a document without `sources`, with two or more sources,
\* without `tables` in its source, with two or more tables, each with its
\* own reason and in this order, and an updater exists only when none of
\* the four holds.
C7_FourReasonsInOrder ==
    /\ LoadsDone =>
          /\ NoSourcesKey(data) =>
                pc = "raised" /\ raised = "not a dbt source YAML"
          /\ MultipleDatasets(data) =>
                pc = "raised" /\ raised = "contains multiple datasets"
          /\ NoTablesKey(data) => pc = "raised" /\ raised = "no tables"
          /\ MultipleTables(data) =>
                pc = "raised" /\ raised = "contains multiple tables"
    /\ pc \in {"loaded", "called"} =>
          /\ ~NoSourcesKey(old) /\ ~MultipleDatasets(old)
          /\ ~NoTablesKey(old) /\ ~MultipleTables(old)
    /\ Cardinality(ShapeErrors) = 4

\* C7 witness: a document with two sources whose first source has no
\* `tables` key was rejected for its second check, not its third.
C7_Witness ==
    /\ LoadsDone
    /\ "sources" \in DOMAIN data
    /\ Len(data.sources) = 2
    /\ "tables" \notin DOMAIN data.sources[1]
    /\ raised = "contains multiple datasets"

\* a call that reaches the table_description setter on a document with a table
DescriptionCall ==
    /\ pc \in {"called", "raised"}
    /\ op \in {"table_description", "update_with_bq_table"}
    /\ HasTable(old)

\* C8: the table description is the supplied value when that is a string;
\* for any other value no error is raised and the description is what it
\* was, present or absent.
C8_DescriptionOnlyFromString ==
    DescriptionCall =>
        /\ raised = "none"
        /\ IF isinstance_str(arg_description)
           THEN DescriptionOf(TableOf(data)) = <<arg_description.v>>
           ELSE DescriptionOf(TableOf(data)) = DescriptionOf(TableOf(old))

\* C8 witness: update_with_bq_table with a null description on a described table.
C8_Witness ==
    /\ DescriptionCall
    /\ op = "update_with_bq_table"
    /\ arg_description = PyNone
    /\ DescriptionOf(TableOf(old)) = <<"old table text">>
    /\ DescriptionOf(TableOf(data)) = <<"old table text">>

\* a call that reaches the table_labels setter on a document with a table
LabelsCall ==
    /\ pc \in {"called", "raised"}
    /\ op \in {"table_labels", "update_with_bq_table"}
    /\ HasTable(old)

\* C9: `meta` is the supplied mapping when that is a non-empty mapping; for
\* any other value no error is raised and `meta` is what it was.
C9_LabelsOnlyFromNonEmptyMapping ==
    LabelsCall =>
        /\ raised = "none"
        /\ IF arg_labels.t = "dict" /\ arg_labels.v # {}
           THEN MetaOf(TableOf(data)) = <<arg_labels.v>>
           ELSE MetaOf(TableOf(data)) = MetaOf(TableOf(old))

\* C9 witness: the setter given an empty mapping on a table with labels.
C9_Witness ==
    /\ LabelsCall
    /\ op = "table_labels"
    /\ arg_labels = LabDict({})
    /\ MetaOf(TableOf(old)) = <<{<<"owner", "me">>}>>
    /\ MetaOf(TableOf(data)) = <<{<<"owner", "me">>}>>

\* C10: two columns present before and after update_columns stand in the
\* same relative order after it as before.
C10_ExistingOrderKept ==
    ColumnsCall =>
        \A p, q \in 1..Len(after), i, j \in 1..Len(before) :
            (/\ p < q
             /\ after[p].name = before[i].name
             /\ after[q].name = before[j].name) => i < j

\* C10 witness: a column was inserted between two columns that were kept,
\* and a column that stood before them was removed.
C10_Witness ==
    /\ ColumnsCall
    /\ Len(before) = 3
    /\ before[1].name \notin column_names(after)
    /\ \E p, q, r \in 1..Len(after) :
          /\ p < q /\ q < r
          /\ after[p].name = before[2].name
          /\ after[r].name = before[3].name
          /\ after[q].name \notin column_names(before)

====
